---------------------------- MODULE Spec2Model ----------------------------
(***************************************************************************)
(* The Spanish Snowball stemmer, SpanishStemmer.stem of                    *)
(* whoosh/lang/snowball/spanish.py, as a state machine.                    *)
(*                                                                         *)
(* A word is a sequence of characters; a character is a one-element name:  *)
(* the ASCII letters stand for themselves, and                             *)
(*    "a'" "e'" "i'" "o'" "u'"  are U+00E1 U+00E9 U+00ED U+00F3 U+00FA,    *)
(*    "u:"                      is U+00FC (u with diaeresis),              *)
(*    "A'" ... "U'", "U:"       are their capitals,                        *)
(*    "I."                      is U+0130 (capital I with dot above),      *)
(*    "."                       is U+0307 (combining dot above).           *)
(* One call of stem is the sequence of actions                             *)
(*    Stem or Restem, DoStep0, DoStep1, (DoStep2a, DoStep2b), DoStep3,     *)
(*    DoNormalize, which ends in pc = "done" with the value returned;      *)
(* an IndexError raised inside the call ends it in pc = "raised".          *)
(***************************************************************************)
EXTENDS Integers, Sequences, FiniteSets

VARIABLES
    input,          \* the argument of the current call of stem
    word,           \* local variable word
    r1, r2, rv,     \* local variables r1, r2, rv
    step1_success,  \* local variable step1_success
    pc,             \* position inside the call
    entered,        \* the steps the current call has entered, in order
    edited,         \* the steps of the current call that changed word
    calls,          \* number of calls of stem made so far on this word
    returned        \* the value the last completed call returned

vars == <<input, word, r1, r2, rv, step1_success, pc, entered, edited, calls, returned>>

-----------------------------------------------------------------------------
(* Python's str operations, on sequences of characters.                    *)

Min(a, b) == IF a < b THEN a ELSE b

Max(a, b) == IF a > b THEN a ELSE b

\* A slice bound as Python clamps it: negative bounds count from the end.
Clamp(s, i) == IF i < 0 THEN Max(Len(s) + i, 0) ELSE Min(i, Len(s))

\* s[i:j]
Slice(s, i, j) ==
    IF Clamp(s, j) <= Clamp(s, i) THEN << >>
    ELSE SubSeq(s, Clamp(s, i) + 1, Clamp(s, j))

\* s[:-n], for n >= 1
DropLast(s, n) == Slice(s, 0, 0 - n)

\* s.endswith(suf)
EndsWith(s, suf) ==
    /\ Len(suf) <= Len(s)
    /\ SubSeq(s, Len(s) - Len(suf) + 1, Len(s)) = suf

\* s.endswith(tuple)
EndsWithAny(s, sufs) == \E k \in 1..Len(sufs) : EndsWith(s, sufs[k])

\* s startswith old at 0-based offset i
OccursAt(s, old, i) ==
    /\ i + Len(old) <= Len(s)
    /\ SubSeq(s, i + 1, i + Len(old)) = old

\* s.replace(old, new): every non-overlapping occurrence, left to right
RECURSIVE ReplaceFrom(_, _, _, _)
ReplaceFrom(s, old, new, i) ==
    IF i >= Len(s) THEN << >>
    ELSE IF OccursAt(s, old, i)
         THEN new \o ReplaceFrom(s, old, new, i + Len(old))
         ELSE <<s[i + 1]>> \o ReplaceFrom(s, old, new, i + 1)

Replace(s, old, new) == ReplaceFrom(s, old, new, 0)

\* The lowercase of the capital ASCII letters the words of the model use.
ascii_lowercase ==
    [A |-> "a", B |-> "b", C |-> "c", D |-> "d", E |-> "e", G |-> "g", I |-> "i",
     L |-> "l", M |-> "m", N |-> "n", O |-> "o", P |-> "p", R |-> "r", S |-> "s",
     T |-> "t", U |-> "u", Y |-> "y"]

\* The case mapping of str.lower() on the characters of the model.  U+0130
\* lowers to the two characters U+0069 U+0307.
LowerChar(c) ==
    CASE c \in DOMAIN ascii_lowercase -> <<ascii_lowercase[c]>>
      [] c = "A'" -> <<"a'">>
      [] c = "E'" -> <<"e'">>
      [] c = "I'" -> <<"i'">>
      [] c = "O'" -> <<"o'">>
      [] c = "U'" -> <<"u'">>
      [] c = "U:" -> <<"u:">>
      [] c = "I." -> <<"i", ".">>
      [] OTHER -> <<c>>

\* word.lower()
RECURSIVE Lower(_)
Lower(s) == IF s = << >> THEN << >> ELSE LowerChar(Head(s)) \o Lower(Tail(s))

\* The first of the table indices hits, 0 when there is none: the entry at
\* which a "for suffix in table: if <hit>: ...; break" stops.
FirstHit(hits) ==
    IF hits = {} THEN 0 ELSE CHOOSE k \in hits : \A m \in hits : k <= m

-----------------------------------------------------------------------------
(* The class attributes.                                                   *)

vowels == {"a", "e", "i", "o", "u", "a'", "e'", "i'", "o'", "u'", "u:"}

step0_suffixes ==
    << <<"s","e","l","a","s">>, <<"s","e","l","o","s">>, <<"s","e","l","a">>,
       <<"s","e","l","o">>, <<"l","a","s">>, <<"l","e","s">>, <<"l","o","s">>,
       <<"n","o","s">>, <<"m","e">>, <<"s","e">>, <<"l","a">>, <<"l","e">>, <<"l","o">> >>

step1_suffixes ==
    << <<"a","m","i","e","n","t","o","s">>, <<"i","m","i","e","n","t","o","s">>,
       <<"a","m","i","e","n","t","o">>, <<"i","m","i","e","n","t","o">>,
       <<"a","c","i","o","n","e","s">>, <<"u","c","i","o","n","e","s">>,
       <<"a","d","o","r","a","s">>, <<"a","d","o","r","e","s">>,
       <<"a","n","c","i","a","s">>, <<"l","o","g","i'","a","s">>,
       <<"e","n","c","i","a","s">>, <<"a","m","e","n","t","e">>,
       <<"i","d","a","d","e","s">>, <<"a","n","z","a","s">>, <<"i","s","m","o","s">>,
       <<"a","b","l","e","s">>, <<"i","b","l","e","s">>, <<"i","s","t","a","s">>,
       <<"a","d","o","r","a">>, <<"a","c","i","o'","n">>, <<"a","n","t","e","s">>,
       <<"a","n","c","i","a">>, <<"l","o","g","i'","a">>, <<"u","c","i","o'","n">>,
       <<"e","n","c","i","a">>, <<"m","e","n","t","e">>, <<"a","n","z","a">>,
       <<"i","c","o","s">>, <<"i","c","a","s">>, <<"i","s","m","o">>, <<"a","b","l","e">>,
       <<"i","b","l","e">>, <<"i","s","t","a">>, <<"o","s","o","s">>, <<"o","s","a","s">>,
       <<"a","d","o","r">>, <<"a","n","t","e">>, <<"i","d","a","d">>, <<"i","v","a","s">>,
       <<"i","v","o","s">>, <<"i","c","o">>, <<"i","c","a">>, <<"o","s","o">>,
       <<"o","s","a">>, <<"i","v","a">>, <<"i","v","o">> >>

step2a_suffixes ==
    << <<"y","e","r","o","n">>, <<"y","e","n","d","o">>, <<"y","a","m","o","s">>,
       <<"y","a","i","s">>, <<"y","a","n">>, <<"y","e","n">>, <<"y","a","s">>,
       <<"y","e","s">>, <<"y","a">>, <<"y","e">>, <<"y","o">>, <<"y","o'">> >>

step2b_suffixes ==
    << <<"a","r","i'","a","m","o","s">>, <<"e","r","i'","a","m","o","s">>,
       <<"i","r","i'","a","m","o","s">>, <<"i","e'","r","a","m","o","s">>,
       <<"i","e'","s","e","m","o","s">>, <<"a","r","i'","a","i","s">>,
       <<"a","r","e","m","o","s">>, <<"e","r","i'","a","i","s">>,
       <<"e","r","e","m","o","s">>, <<"i","r","i'","a","i","s">>,
       <<"i","r","e","m","o","s">>, <<"i","e","r","a","i","s">>,
       <<"i","e","s","e","i","s">>, <<"a","s","t","e","i","s">>,
       <<"i","s","t","e","i","s">>, <<"a'","b","a","m","o","s">>,
       <<"a'","r","a","m","o","s">>, <<"a'","s","e","m","o","s">>, <<"a","r","i'","a","n">>,
       <<"a","r","i'","a","s">>, <<"a","r","e'","i","s">>, <<"e","r","i'","a","n">>,
       <<"e","r","i'","a","s">>, <<"e","r","e'","i","s">>, <<"i","r","i'","a","n">>,
       <<"i","r","i'","a","s">>, <<"i","r","e'","i","s">>, <<"i","e","r","a","n">>,
       <<"i","e","s","e","n">>, <<"i","e","r","o","n">>, <<"i","e","n","d","o">>,
       <<"i","e","r","a","s">>, <<"i","e","s","e","s">>, <<"a","b","a","i","s">>,
       <<"a","r","a","i","s">>, <<"a","s","e","i","s">>, <<"e'","a","m","o","s">>,
       <<"a","r","a'","n">>, <<"a","r","a'","s">>, <<"a","r","i'","a">>,
       <<"e","r","a'","n">>, <<"e","r","a'","s">>, <<"e","r","i'","a">>,
       <<"i","r","a'","n">>, <<"i","r","a'","s">>, <<"i","r","i'","a">>,
       <<"i","e","r","a">>, <<"i","e","s","e">>, <<"a","s","t","e">>, <<"i","s","t","e">>,
       <<"a","b","a","n">>, <<"a","r","a","n">>, <<"a","s","e","n">>, <<"a","r","o","n">>,
       <<"a","n","d","o">>, <<"a","b","a","s">>, <<"a","d","a","s">>, <<"i","d","a","s">>,
       <<"a","r","a","s">>, <<"a","s","e","s">>, <<"i'","a","i","s">>, <<"a","d","o","s">>,
       <<"i","d","o","s">>, <<"a","m","o","s">>, <<"i","m","o","s">>, <<"e","m","o","s">>,
       <<"a","r","a'">>, <<"a","r","e'">>, <<"e","r","a'">>, <<"e","r","e'">>,
       <<"i","r","a'">>, <<"i","r","e'">>, <<"a","b","a">>, <<"a","d","a">>,
       <<"i","d","a">>, <<"a","r","a">>, <<"a","s","e">>, <<"i'","a","n">>, <<"a","d","o">>,
       <<"i","d","o">>, <<"i'","a","s">>, <<"a'","i","s">>, <<"e'","i","s">>, <<"i'","a">>,
       <<"a","d">>, <<"e","d">>, <<"i","d">>, <<"a","n">>, <<"i","o'">>, <<"a","r">>,
       <<"e","r">>, <<"i","r">>, <<"a","s">>, <<"i'","s">>, <<"e","n">>, <<"e","s">> >>

\* As step3_suffixes, without its first entry "os".
step3_suffixes_without_os ==
    << <<"a">>, <<"e">>, <<"o">>, <<"a'">>, <<"e'">>, <<"i'">>, <<"o'">> >>

step3_suffixes ==
    << <<"o","s">>, <<"a">>, <<"e">>, <<"o">>, <<"a'">>, <<"e'">>, <<"i'">>, <<"o'">> >>

-----------------------------------------------------------------------------
(* The regions of a word: _r1r2_standard and _rv_standard of the base      *)
(* class _StandardStemmer, as the standard Snowball definitions state them.*)

\* The part of w after the first non-vowel that follows a vowel.
AfterVowelNonVowel(w) ==
    LET at == {i \in 2..Len(w) : w[i] \notin vowels /\ w[i - 1] \in vowels}
    IN  IF at = {} THEN << >>
        ELSE SubSeq(w, (CHOOSE i \in at : \A j \in at : i <= j) + 1, Len(w))

R1Of(w) == AfterVowelNonVowel(w)

R2Of(w) == AfterVowelNonVowel(R1Of(w))

\* The part of w after the first position >= 3 whose letter is (isVowel =
\* TRUE) or is not (FALSE) a vowel.
AfterNext(w, isVowel) ==
    LET at == {i \in 3..Len(w) : (w[i] \in vowels) = isVowel}
    IN  IF at = {} THEN << >>
        ELSE SubSeq(w, (CHOOSE i \in at : \A j \in at : i <= j) + 1, Len(w))

RVOf(w) ==
    IF Len(w) < 2 THEN << >>
    ELSE IF w[2] \notin vowels THEN AfterNext(w, TRUE)
    ELSE IF w[1] \in vowels THEN AfterNext(w, FALSE)
    ELSE Slice(w, 3, Len(w))

-----------------------------------------------------------------------------
(* The steps of stem.  A step maps the record s of the locals word, r1,    *)
(* r2, rv to their values after the step.                                  *)

\* word, r1, r2 and rv all cut by n characters
CutAll(s, n) ==
    [word |-> DropLast(s.word, n), r1 |-> DropLast(s.r1, n),
     r2 |-> DropLast(s.r2, n), rv |-> DropLast(s.rv, n)]

\* word, r2 and rv cut by n characters
CutWordR2RV(s, n) ==
    [s EXCEPT !.word = DropLast(s.word, n), !.r2 = DropLast(s.r2, n),
              !.rv = DropLast(s.rv, n)]

\* word and rv cut by n characters
CutWordRV(s, n) ==
    [s EXCEPT !.word = DropLast(s.word, n), !.rv = DropLast(s.rv, n)]

\* .replace(a-acute, a).replace(e-acute, e).replace(i-acute, i)
Unaccent3(x) ==
    Replace(Replace(Replace(x, <<"a'">>, <<"a">>), <<"e'">>, <<"e">>), <<"i'">>, <<"i">>)

step0_accented ==
    << <<"i","e'","n","d","o">>, <<"a'","n","d","o">>, <<"a'","r">>, <<"e'","r">>,
       <<"i'","r">> >>

step0_plain ==
    << <<"a","n","d","o">>, <<"i","e","n","d","o">>, <<"a","r">>, <<"e","r">>,
       <<"i","r">> >>

\* The body of "if rv.endswith(suffix)" of Step 0.
Step0Edit(s, suffix) ==
    LET n == Len(suffix)
        c == CutAll(s, n)
    IN  IF EndsWithAny(c.rv, step0_accented)
        THEN [word |-> Unaccent3(c.word), r1 |-> Unaccent3(c.r1),
              r2 |-> Unaccent3(c.r2), rv |-> Unaccent3(c.rv)]
        ELSE IF EndsWithAny(c.rv, step0_plain) THEN c
        ELSE IF /\ EndsWith(c.rv, <<"y","e","n","d","o">>)
                /\ EndsWith(c.word, <<"u","y","e","n","d","o">>)
             THEN c
        ELSE s

\* STEP 0: Attached pronoun
Step0(s) ==
    LET k == FirstHit({i \in DOMAIN step0_suffixes : EndsWith(s.word, step0_suffixes[i])})
    IN  IF k # 0 /\ EndsWith(s.rv, step0_suffixes[k])
        THEN Step0Edit(s, step0_suffixes[k])
        ELSE s

\* The branch "suffix == 'amente' and r1.endswith(suffix)" of Step 1.
Step1Amente(s) ==
    LET a == CutWordR2RV(s, 6)
    IN  IF EndsWith(a.r2, <<"i","v">>)
        THEN LET b == CutWordR2RV(a, 2)
             IN  IF EndsWith(b.r2, <<"a","t">>) THEN CutWordRV(b, 2) ELSE b
        ELSE IF EndsWithAny(a.r2, << <<"o","s">>, <<"i","c">>, <<"a","d">> >>)
             THEN CutWordRV(a, 2)
        ELSE a

step1_agent ==
    { <<"a","d","o","r","a">>, <<"a","d","o","r">>, <<"a","c","i","o'","n">>,
      <<"a","d","o","r","a","s">>, <<"a","d","o","r","e","s">>,
      <<"a","c","i","o","n","e","s">>, <<"a","n","t","e">>, <<"a","n","t","e","s">>,
      <<"a","n","c","i","a">>, <<"a","n","c","i","a","s">> }

step1_replaced ==
    { <<"l","o","g","i'","a">>, <<"l","o","g","i'","a","s">>, <<"u","c","i","o'","n">>,
      <<"u","c","i","o","n","e","s">>, <<"e","n","c","i","a">>,
      <<"e","n","c","i","a","s">> }

\* As Step1Replacement, with the new ending put after the suffix instead of
\* in its place.
Step1ReplacementAfterSuffix(suffix) ==
    suffix \o (IF suffix \in {<<"l","o","g","i'","a">>, <<"l","o","g","i'","a","s">>}
               THEN <<"l","o","g">>
               ELSE IF suffix \in {<<"u","c","i","o'","n">>,
                                   <<"u","c","i","o","n","e","s">>}
               THEN <<"u">>
               ELSE <<"e","n","t","e">>)

\* What Step 1 puts in the place of a suffix of step1_replaced.
Step1Replacement(suffix) ==
    IF suffix \in {<<"l","o","g","i'","a">>, <<"l","o","g","i'","a","s">>}
    THEN <<"l","o","g">>
    ELSE IF suffix \in {<<"u","c","i","o'","n">>, <<"u","c","i","o","n","e","s">>}
    THEN <<"u">>
    ELSE <<"e","n","t","e">>

\* word = word.replace(suffix, new); rv = rv.replace(suffix, new)
Step1Replace(s, suffix) ==
    [s EXCEPT !.word = Replace(s.word, suffix, Step1Replacement(suffix)),
              !.rv = Replace(s.rv, suffix, Step1Replacement(suffix))]

\* for pre_suff in ("abil", "ic", "iv"): if r2.endswith(pre_suff): cut word, rv
RECURSIVE CutPreSuffixes(_, _)
CutPreSuffixes(s, pre) ==
    IF pre = << >> THEN s
    ELSE CutPreSuffixes(IF EndsWith(s.r2, Head(pre))
                        THEN CutWordRV(s, Len(Head(pre))) ELSE s,
                        Tail(pre))

\* The branch "elif r2.endswith(suffix)" of Step 1.
Step1InR2(s, suffix) ==
    LET n == Len(suffix)
        c == CutWordR2RV(s, n)
    IN  IF suffix \in step1_agent
        THEN IF EndsWith(c.r2, <<"i","c">>) THEN CutWordRV(c, 2) ELSE c
        ELSE IF suffix \in step1_replaced THEN Step1Replace(s, suffix)
        ELSE IF suffix = <<"m","e","n","t","e">>
        THEN IF EndsWithAny(c.r2, << <<"a","n","t","e">>, <<"a","b","l","e">>,
                                     <<"i","b","l","e">> >>)
             THEN CutWordRV(c, 4) ELSE c
        ELSE IF suffix \in {<<"i","d","a","d">>, <<"i","d","a","d","e","s">>}
        THEN CutPreSuffixes(c, << <<"a","b","i","l">>, <<"i","c">>, <<"i","v">> >>)
        ELSE IF suffix \in {<<"i","v","o">>, <<"i","v","a">>, <<"i","v","o","s">>,
                            <<"i","v","a","s">>}
        THEN IF EndsWith(c.r2, <<"a","t">>) THEN CutWordRV(c, 2) ELSE c
        ELSE CutWordRV(s, n)

\* The suffix at which the loop of Step 1 stops, 0 when it runs to its end.
Step1Hit(s) ==
    FirstHit({i \in DOMAIN step1_suffixes : EndsWith(s.word, step1_suffixes[i])})

\* As Step1Success, with the flag set as soon as the word ends with a suffix
\* of the table, before the region is tested.
Step1SuccessOnMatch(s) == Step1Hit(s) # 0

\* step1_success after Step 1
Step1Success(s) ==
    LET suffix == step1_suffixes[Step1Hit(s)]
    IN  /\ Step1Hit(s) # 0
        /\ \/ suffix = <<"a","m","e","n","t","e">> /\ EndsWith(s.r1, suffix)
           \/ EndsWith(s.r2, suffix)

\* As Step1, without the tests that the suffix lies in R1 or R2.
Step1AnyRegion(s) ==
    LET suffix == step1_suffixes[Step1Hit(s)]
    IN  IF Step1Hit(s) = 0 THEN s
        ELSE IF suffix = <<"a","m","e","n","t","e">> THEN Step1Amente(s)
        ELSE Step1InR2(s, suffix)

\* STEP 1: Standard suffix removal
Step1(s) ==
    LET suffix == step1_suffixes[Step1Hit(s)]
    IN  IF Step1Hit(s) = 0 THEN s
        ELSE IF suffix = <<"a","m","e","n","t","e">> /\ EndsWith(s.r1, suffix)
        THEN Step1Amente(s)
        ELSE IF EndsWith(s.r2, suffix) THEN Step1InR2(s, suffix)
        ELSE s

\* As Step2aHit, without the test that "u" precedes the suffix.
Step2aHitAnyLetter(s, suffix) == EndsWith(s.rv, suffix)

\* The loop condition of Step 2a.
Step2aHit(s, suffix) ==
    /\ EndsWith(s.rv, suffix)
    /\ Slice(s.word, 0 - Len(suffix) - 1, 0 - Len(suffix)) = <<"u">>

\* STEP 2a: Verb suffixes beginning 'y'
Step2a(s) ==
    LET k == FirstHit({i \in DOMAIN step2a_suffixes : Step2aHit(s, step2a_suffixes[i])})
    IN  IF k = 0 THEN s ELSE CutWordRV(s, Len(step2a_suffixes[k]))

step2b_gu == { <<"e","n">>, <<"e","s">>, <<"e'","i","s">>, <<"e","m","o","s">> }

\* As Step2b, with the suffix looked for in R2 instead of RV.
Step2bInR2(s) ==
    LET k == FirstHit({i \in DOMAIN step2b_suffixes : EndsWith(s.r2, step2b_suffixes[i])})
    IN  IF k = 0 THEN s ELSE CutWordRV(s, Len(step2b_suffixes[k]))

\* STEP 2b: Other verb suffixes
Step2b(s) ==
    LET k == FirstHit({i \in DOMAIN step2b_suffixes : EndsWith(s.rv, step2b_suffixes[i])})
        c == CutWordRV(s, Len(step2b_suffixes[k]))
    IN  IF k = 0 THEN s
        ELSE IF step2b_suffixes[k] \in step2b_gu
        THEN [c EXCEPT
                !.word = IF EndsWith(c.word, <<"g","u">>) THEN DropLast(c.word, 1)
                         ELSE c.word,
                !.rv = IF EndsWith(c.rv, <<"g","u">>) THEN DropLast(c.rv, 1)
                       ELSE c.rv]
        ELSE c

\* The suffix at which the loop of Step 3 stops, 0 when it runs to its end.
Step3Hit(s) == FirstHit({i \in DOMAIN step3_suffixes : EndsWith(s.rv, step3_suffixes[i])})

\* Step 3 took its 'e' branch.
Step3IsE(s) == Step3Hit(s) # 0 /\ step3_suffixes[Step3Hit(s)] \in {<<"e">>, <<"e'">>}

\* Step 3 evaluates rv[-1] on an empty rv: IndexError.
Step3Raises(s) ==
    LET c == CutWordRV(s, 1)
    IN  /\ Step3IsE(s)
        /\ Slice(c.word, 0 - 2, Len(c.word)) = <<"g","u">>
        /\ c.rv = << >>

\* STEP 3: Residual suffix.  When Step3Raises(s), the locals at the raise.
Step3(s) ==
    LET k == Step3Hit(s)
        c == CutWordRV(s, Len(step3_suffixes[k]))
    IN  IF k = 0 THEN s
        ELSE IF Step3IsE(s)
        THEN IF /\ Slice(c.word, 0 - 2, Len(c.word)) = <<"g","u">>
                /\ c.rv # << >>
                /\ c.rv[Len(c.rv)] = "u"
             THEN [c EXCEPT !.word = DropLast(c.word, 1)]
             ELSE c
        ELSE [s EXCEPT !.word = DropLast(s.word, Len(step3_suffixes[k]))]

\* As Normalize, without the replacement of u-acute.
NormalizeButUAcute(w) ==
    Replace(Replace(Replace(Replace(w,
        <<"a'">>, <<"a">>), <<"e'">>, <<"e">>), <<"i'">>, <<"i">>),
        <<"o'">>, <<"o">>)

\* The final replacement of the accented vowels.
Normalize(w) ==
    Replace(Replace(Replace(Replace(Replace(w,
        <<"a'">>, <<"a">>), <<"e'">>, <<"e">>), <<"i'">>, <<"i">>),
        <<"o'">>, <<"o">>), <<"u'">>, <<"u">>)

-----------------------------------------------------------------------------
(* The words stem is called on.                                            *)

\* Longest generated prefix.
MaxPrefixLen == 4

\* Calls of stem on one word: the first, then calls on the returned stem.
MaxCalls == 2

\* The letters of the generated prefixes: a consonant and two vowels, so
\* that the prefixes put a suffix inside or outside each region and end in
\* "u" and in "gu".
PrefixLetters == {"a", "g", "u"}

RECURSIVE StringsUpTo(_, _)
StringsUpTo(letters, n) ==
    IF n = 0 THEN {<< >>}
    ELSE LET shorter == StringsUpTo(letters, n - 1)
         IN  shorter \cup {<<c>> \o x : c \in letters, x \in {y \in shorter : Len(y) = n - 1}}

Range(f) == {f[k] : k \in DOMAIN f}

Vocabulary ==
    { <<>>, <<"a">>, <<"y">>, <<"c","l","a","r","i","d","a","d">>,
      <<"c","o","r","r","i","e","n","d","o">>, <<"c","o","m","i","e","n","d","o">>,
      <<"r","a'","p","i","d","a","m","e","n","t","e">>, <<"a","m","i","g","o","s">>,
      <<"a","g","u","e">>, <<"s","i","g","u","e">>, <<"l","l","e","g","u","e'">>,
      <<"R","A'","P","I","D","O">>, <<"I.">>, <<"C","A","N","C","I","O'","N">>,
      <<"a","u'","n">>, <<"t","u'">>, <<"b","a","u'","l">>,
      <<"a","l","o","g","i'","a","l","o","g","i'","a">>,
      <<"l","l","o","g","i'","a","t","a","l","o","g","i'","a">>,
      <<"c","c","u","c","i","o'","n","u","c","i","o'","n">>,
      <<"c","c","e","n","c","i","a","t","a","l","e","n","c","i","a">>,
      <<"c","o","n","s","t","r","u","y","e","n","d","o">>, <<"h","u","y","e","r","o","n">>,
      <<"c","o","n","t","r","i","b","u","y","o'">>,
      <<"d","e","s","t","r","u","y","e'","n","d","o","l","o">>,
      <<"d","a'","n","d","o","s","e">>, <<"d","e","c","i'","r","s","e","l","o">>,
      <<"c","o","m","p","r","a","r","l","a","s">>,
      <<"n","a","c","i","o","n","a","l","i","d","a","d">>,
      <<"a","c","t","i","v","a","m","e","n","t","e">>,
      <<"s","o","l","u","c","i","o'","n">>, <<"t","e","n","d","e","n","c","i","a">>,
      <<"b","i","o","l","o","g","i'","a">>,
      <<"p","r","o","b","a","b","l","e","m","e","n","t","e">>,
      <<"o","p","e","r","a","t","i","v","o","s">>, <<"i","n","d","i","c","a","d","o","r">> }

CompoundEndings ==
    { <<"i","v","a","m","e","n","t","e">>, <<"a","t","i","v","a","m","e","n","t","e">>,
      <<"o","s","a","m","e","n","t","e">>, <<"i","c","a","m","e","n","t","e">>,
      <<"a","d","a","m","e","n","t","e">>, <<"i","c","a","d","o","r">>,
      <<"i","c","a","c","i","o'","n">>, <<"i","c","a","n","t","e">>,
      <<"a","n","t","e","m","e","n","t","e">>, <<"a","b","l","e","m","e","n","t","e">>,
      <<"i","b","l","e","m","e","n","t","e">>, <<"a","b","i","l","i","d","a","d">>,
      <<"i","c","i","d","a","d">>, <<"i","v","i","d","a","d">>, <<"a","t","i","v","o">>,
      <<"a","t","i","v","a","s">>, <<"i","e'","n","d","o","l","a">>,
      <<"a'","n","d","o","s","e">>, <<"a'","r","m","e">>, <<"e'","r","l","e">>,
      <<"i'","r","l","o","s">>, <<"a","n","d","o","n","o","s">>,
      <<"i","e","n","d","o","s","e","l","a","s">>, <<"a","r","s","e">>,
      <<"e","r","l","o">>, <<"i","r","l","a">>, <<"u","y","e","n","d","o","l","o">>,
      <<"y","e","n","d","o","s","e">>, <<"u","y","o'">>, <<"u","y","e","n">>,
      <<"g","u","e","n">>, <<"g","u","e","s">>, <<"g","u","e","m","o","s">>,
      <<"g","u","e'","i","s">>, <<"g","u","e">>, <<"g","u","e'">>, <<"u","e">>, <<"u'">> }

\* Every suffix of the five tables, the compound endings, and no ending.
Endings ==
    Range(step0_suffixes) \cup Range(step1_suffixes) \cup Range(step2a_suffixes)
        \cup Range(step2b_suffixes) \cup Range(step3_suffixes) \cup CompoundEndings
        \cup {<< >>}

Words ==
    Vocabulary \cup {p \o e : p \in StringsUpTo(PrefixLetters, MaxPrefixLen), e \in Endings}

-----------------------------------------------------------------------------
(* The state machine of calls of stem.                                     *)

locals == [word |-> word, r1 |-> r1, r2 |-> r2, rv |-> rv]

Init ==
    /\ input = << >>
    /\ word = << >>
    /\ r1 = << >>
    /\ r2 = << >>
    /\ rv = << >>
    /\ step1_success = FALSE
    /\ pc = "idle"
    /\ entered = << >>
    /\ edited = {}
    /\ calls = 0
    /\ returned = << >>

\* Lines 85-90: lowercase the argument and compute the regions.
Enter(w) ==
    /\ input' = w
    /\ word' = Lower(w)
    /\ step1_success' = FALSE
    /\ r1' = R1Of(Lower(w))
    /\ r2' = R2Of(Lower(w))
    /\ rv' = RVOf(Lower(w))
    /\ pc' = "step0"
    /\ entered' = << >>
    /\ edited' = {}
    /\ calls' = calls + 1
    /\ UNCHANGED returned

\* A caller stems a word.
Stem ==
    /\ pc = "idle"
    /\ \E w \in Words : Enter(w)

\* A caller stems the stem it got.
Restem ==
    /\ pc = "done"
    /\ calls < MaxCalls
    /\ Enter(returned)

DoStep0 ==
    /\ pc = "step0"
    /\ word' = Step0(locals).word
    /\ r1' = Step0(locals).r1
    /\ r2' = Step0(locals).r2
    /\ rv' = Step0(locals).rv
    /\ pc' = "step1"
    /\ entered' = Append(entered, "step0")
    /\ edited' = IF Step0(locals).word # word THEN edited \cup {"step0"} ELSE edited
    /\ UNCHANGED <<input, step1_success, calls, returned>>

DoStep1 ==
    /\ pc = "step1"
    /\ word' = Step1(locals).word
    /\ r1' = Step1(locals).r1
    /\ r2' = Step1(locals).r2
    /\ rv' = Step1(locals).rv
    /\ step1_success' = Step1Success(locals)
    /\ pc' = IF Step1Success(locals) THEN "step3" ELSE "step2a"
    /\ entered' = Append(entered, "step1")
    /\ edited' = IF Step1(locals).word # word THEN edited \cup {"step1"} ELSE edited
    /\ UNCHANGED <<input, calls, returned>>

DoStep2a ==
    /\ pc = "step2a"
    /\ word' = Step2a(locals).word
    /\ rv' = Step2a(locals).rv
    /\ pc' = "step2b"
    /\ entered' = Append(entered, "step2a")
    /\ edited' = IF Step2a(locals).word # word THEN edited \cup {"step2a"} ELSE edited
    /\ UNCHANGED <<input, r1, r2, step1_success, calls, returned>>

DoStep2b ==
    /\ pc = "step2b"
    /\ word' = Step2b(locals).word
    /\ rv' = Step2b(locals).rv
    /\ pc' = "step3"
    /\ entered' = Append(entered, "step2b")
    /\ edited' = IF Step2b(locals).word # word THEN edited \cup {"step2b"} ELSE edited
    /\ UNCHANGED <<input, r1, r2, step1_success, calls, returned>>

DoStep3 ==
    /\ pc = "step3"
    /\ word' = Step3(locals).word
    /\ rv' = Step3(locals).rv
    /\ pc' = IF Step3Raises(locals) THEN "raised" ELSE "normalize"
    /\ entered' = Append(entered, "step3")
    /\ edited' = IF Step3(locals).word # word THEN edited \cup {"step3"} ELSE edited
    /\ UNCHANGED <<input, r1, r2, step1_success, calls, returned>>

DoNormalize ==
    /\ pc = "normalize"
    /\ word' = Normalize(word)
    /\ returned' = Normalize(word)
    /\ pc' = "done"
    /\ entered' = Append(entered, "normalize")
    /\ edited' = IF Normalize(word) # word THEN edited \cup {"normalize"} ELSE edited
    /\ UNCHANGED <<input, r1, r2, rv, step1_success, calls>>

Next ==
    \/ Stem
    \/ Restem
    \/ DoStep0
    \/ DoStep1
    \/ DoStep2a
    \/ DoStep2b
    \/ DoStep3
    \/ DoNormalize

Spec == Init /\ [][Next]_vars

-----------------------------------------------------------------------------
(* Properties of stem.                                                     *)

Letters(s) == {s[k] : k \in 1..Len(s)}

AccentedVowels == {"a'", "e'", "i'", "o'", "u'"}

IsSuffixOf(x, w) == EndsWith(w, x)

IsPrefixOf(x, w) == Len(x) <= Len(w) /\ SubSeq(w, 1, Len(x)) = x

\* The positions of a call at which a step is about to run.
StepPositions == {"step0", "step1", "step2a", "step2b", "step3", "normalize"}

\* The positions of a call after Step 0, 1, 2a, 2b and 3.
StepBoundaries == {"step1", "step2a", "step2b", "step3", "normalize"}

Claridad == <<"c","l","a","r","i","d","a","d">>

Clarid == <<"c","l","a","r","i","d">>

Clar == <<"c","l","a","r">>

Rapidamente == <<"r","a'","p","i","d","a","m","e","n","t","e">>

Amigos == <<"a","m","i","g","o","s">>

\* C1: stem is total: no call of stem signals an error, whatever the word
\* and however empty its regions; in particular the 'e' branch of Step 3
\* completes when RV has become empty and the word ends in "gu".
C1_StemNeverRaises == pc # "raised"

\* C2: the string stem returns contains none of the accented vowels
\* a-acute, e-acute, i-acute, o-acute, u-acute, whichever steps fired.
C2_NoAccentedVowelReturned ==
    pc = "done" => Letters(returned) \cap AccentedVowels = {}

\* C2, its case: a call returns for a word with an accented vowel that no
\* step before the normalization removed or changed.
C2_Witness ==
    /\ pc = "done"
    /\ Letters(Lower(input)) \cap AccentedVowels # {}
    /\ edited = {"normalize"}
    /\ Len(returned) = Len(input)

\* C3 as stated: the returned stem is no longer than the argument of the
\* call, and no step from Step 0 to the normalization lengthens the word.
C3_NeverLongerThanArgument ==
    [][/\ pc \in StepPositions => Len(word') <= Len(word)
       /\ pc' = "done" => Len(returned') <= Len(input')]_vars

\* C3, amended: the returned stem is no longer than the lowercased argument
\* of the call, and no step from Step 0 to the normalization lengthens the
\* word (the replacement rules of Step 1 included).
C3_NeverLongerThanLowercased ==
    [][/\ pc \in StepPositions => Len(word') <= Len(word)
       /\ pc' = "done" => Len(returned') <= Len(Lower(input'))]_vars

\* C3, its case: Step 1 has replaced the ending "encia" inside R2 by
\* "ente", and the word is one character shorter.
C3_Witness ==
    /\ pc = "step3"
    /\ step1_success
    /\ EndsWith(Lower(input), <<"e","n","c","i","a">>)
    /\ word = DropLast(Lower(input), 5) \o <<"e","n","t","e">>
    /\ Len(word) = Len(input) - 1

\* C4 as stated: stem("claridad") returns "clar".
C4_ClaridadGivesClar ==
    (pc = "done" /\ calls = 1 /\ input = Claridad) => returned = Clar

\* C4, amended: stem("claridad") returns "clarid": R2 is "ad", so "idad" is
\* outside R2 and Step 1 leaves the word as it is, and Step 2b, the only
\* step that changes the word, strips "ad".
C4_ClaridadGivesClarid ==
    (calls = 1 /\ input = Claridad) =>
        /\ pc = "step1" => r2 = <<"a","d">> /\ word = Claridad
        /\ pc = "step2a" => word = Claridad /\ ~step1_success
        /\ pc = "step3" => word = Clarid /\ edited = {"step2b"}
        /\ pc = "done" => returned = Clarid /\ edited = {"step2b"}

\* C4, its case: the call stem("claridad") has returned.
C4_Witness == pc = "done" /\ calls = 1 /\ input = Claridad /\ returned = Clarid

\* C5: stem returns "corr" for "corriendo", "com" for "comiendo", "rapid"
\* for "rapidamente" with a-acute (Step 1 removes "amente", found in R1, and
\* the normalization removes the accent), "amig" for "amigos" (Step 3
\* removes "os") and "" for "".
C5_Vocabulary ==
    calls = 1 =>
        /\ (pc = "done" /\ input = <<"c","o","r","r","i","e","n","d","o">>)
              => returned = <<"c","o","r","r">>
        /\ (pc = "done" /\ input = <<"c","o","m","i","e","n","d","o">>)
              => returned = <<"c","o","m">>
        /\ (pc = "step1" /\ input = Rapidamente)
              => EndsWith(r1, <<"a","m","e","n","t","e">>)
        /\ (pc = "step3" /\ input = Rapidamente)
              => step1_success /\ word = <<"r","a'","p","i","d">>
        /\ (pc = "done" /\ input = Rapidamente)
              => returned = <<"r","a","p","i","d">> /\ edited = {"step1", "normalize"}
        /\ (pc = "step3" /\ input = Amigos) => word = Amigos
        /\ (pc = "done" /\ input = Amigos)
              => returned = <<"a","m","i","g">> /\ edited = {"step3"}
        /\ (pc = "done" /\ input = << >>) => returned = << >>

\* C5, its case: the call on "amigos" has returned, Step 3 alone having
\* changed the word.
C5_Witness ==
    pc = "done" /\ calls = 1 /\ input = Amigos /\ edited = {"step3"}

\* C6: after each of Step 0, 1, 2a, 2b and 3, R1, R2 and RV are suffixes of
\* the current word, with R2 inside R1: every edit of the word is applied
\* to all three regions.
C6_RegionsInLockstep ==
    pc \in StepBoundaries =>
        /\ IsSuffixOf(r1, word)
        /\ IsSuffixOf(r2, r1)
        /\ IsSuffixOf(rv, word)

\* C7: stem is not idempotent: "clarid", which stem returns for "claridad",
\* still ends in "id", a suffix of Step 2b inside the RV of "clarid", and
\* stemming it again returns "clar".
C7_RestemmingShortensClarid ==
    (calls = 2 /\ input = Clarid) =>
        /\ pc = "step2b" => EndsWith(rv, <<"i","d">>)
        /\ pc = "done" => returned = Clar /\ returned # input

\* C7, its case: a second call, on the stem the first call returned, has
\* returned a different stem.
C7_Witness ==
    pc = "done" /\ calls = 2 /\ input = Clarid /\ returned # input

FullPipeline == <<"step0", "step1", "step2a", "step2b", "step3", "normalize">>

SkipPipeline == <<"step0", "step1", "step3", "normalize">>

\* C8: the steps of a call are entered once each and in the order Step 0,
\* Step 1, (Step 2a, Step 2b,) Step 3, normalization; Steps 2a and 2b are
\* entered exactly when Step 1 left the word unchanged; step1_success is
\* true exactly when Step 1 changed the word; and when the word ends with a
\* suffix of the Step 1 table that the required region does not end with,
\* Step 1 leaves the word unchanged and Step 2a runs next.
C8_Pipeline ==
    [][/\ pc \in StepPositions => entered' = Append(entered, pc)
       /\ IsPrefixOf(entered', IF step1_success' THEN SkipPipeline ELSE FullPipeline)
       /\ pc' = "done" =>
             entered' = IF "step1" \in edited' THEN SkipPipeline ELSE FullPipeline
       /\ pc = "step1" =>
             /\ step1_success' = (word' # word)
             /\ pc' = IF word' # word THEN "step3" ELSE "step2a"
             /\ (Step1Hit(locals) # 0 /\ ~EndsWith(r1, step1_suffixes[Step1Hit(locals)]))
                   => (word' = word /\ pc' = "step2a")
             /\ (/\ Step1Hit(locals) # 0
                 /\ step1_suffixes[Step1Hit(locals)] # <<"a","m","e","n","t","e">>
                 /\ ~EndsWith(r2, step1_suffixes[Step1Hit(locals)]))
                   => (word' = word /\ pc' = "step2a")]_vars

\* C8, its case: Step 2a is about to run on a word that ends with a suffix
\* of the Step 1 table, which Step 1 left in place.
C8_Witness ==
    /\ pc = "step2a"
    /\ ~step1_success
    /\ Step1Hit(locals) # 0
    /\ entered = <<"step0", "step1">>

\* C9: when Step 1 applies a replacement rule, the word after Step 1 is the
\* word before it with its final suffix replaced by "log", "u" or "ente",
\* and the rest of the word unchanged.
C9_ReplacesOnlyTheSuffix ==
    [][(/\ pc = "step1"
        /\ Step1Hit(locals) # 0
        /\ step1_suffixes[Step1Hit(locals)] \in step1_replaced
        /\ EndsWith(r2, step1_suffixes[Step1Hit(locals)]))
       => word' = DropLast(word, Len(step1_suffixes[Step1Hit(locals)]))
                     \o Step1Replacement(step1_suffixes[Step1Hit(locals)])]_vars

\* C10: in a call in which Step 2a removes a suffix, Step 2b still runs and
\* removes nothing, and Step 3 removes nothing.
C10_Step2aExcludesLaterRemovals ==
    "step2a" \in edited =>
        /\ "step2b" \notin edited
        /\ "step3" \notin edited
        /\ pc \in {"step3", "normalize", "done", "raised"} => "step2b" \in Range(entered)

\* C10, its case: a call in which Step 2a removed a suffix has returned.
C10_Witness == pc = "done" /\ "step2a" \in edited /\ "step2b" \in Range(entered)

=============================================================================
